---- MODULE Spec2Model ----
(***************************************************************************)
(* Model of polars-core/src/chunked_array/ops/explode.rs:                  *)
(*   offsets_to_indexes, ListChunked::explode_and_offsets and              *)
(*   Utf8Chunked::explode_and_offsets.                                     *)
(*                                                                         *)
(* Every behaviour is one call: Init draws the kind of call and its input, *)
(* one action runs the called function, and ExplodeIndexes is the table    *)
(* level caller that turns the returned offsets into the index mapping.    *)
(* A result keeps what the call had built when it stopped: on a panic the  *)
(* fields built before the panicking line are still recorded.              *)
(***************************************************************************)
EXTENDS Integers, Sequences, FiniteSets, TLC

VARIABLES pc, kind, offsets, capacity, list_ca, utf8_ca, res

vars == <<pc, kind, offsets, capacity, list_ca, utf8_ca, res>>

(***************************************************************************)
(* Bounds of the explored inputs.                                          *)
(***************************************************************************)
MaxOffsetRows == 3      \* rows of an offsets array given to offsets_to_indexes
MaxOffsetStep == 2      \* elements of one such row
MaxCapacitySlack == 2   \* how far capacity may exceed the largest last offset
MaxListRows == 3        \* rows backing a list column (over all its chunks)
MaxListRowLen == 2      \* elements of one list row
MaxUtf8Rows == 3        \* rows of a text column (over all its chunks)
MaxRowChars == 2        \* characters of one text row

(***************************************************************************)
(* Generic sequence helpers.                                               *)
(***************************************************************************)
SeqsUpTo(S, n) == UNION {[1..k -> S] : k \in 0..n}

Repeat(x, n) == [i \in 1..n |-> x]

Last(s) == s[Len(s)]

RECURSIVE Flatten(_)
Flatten(ss) == IF ss = <<>> THEN <<>> ELSE Head(ss) \o Flatten(Tail(ss))

RECURSIVE PrefixSums(_, _)
PrefixSums(lens, acc) ==
  IF lens = <<>> THEN <<acc>>
  ELSE <<acc>> \o PrefixSums(Tail(lens), acc + Head(lens))

(***************************************************************************)
(* offsets_to_indexes (explode.rs 12-28).  Offsets and indexes are 0-based *)
(* numbers as in the code; TLA+ sequences are 1-based, so offsets[k] of    *)
(* the code is offsets[k+1] here.                                          *)
(***************************************************************************)
AdvanceStuck(last_idx) == last_idx

\* line 22: last_idx += 1 (a u32; the explored indexes stay far below 2^32)
Advance(last_idx) == last_idx + 1

\* lines 18-21: while count < offset { count += 1; push } -- number of pushes
Pushes(count, offset) == IF count < offset THEN offset - count ELSE 0

\* lines 17-23: for &offset in offsets.iter().skip(1); k is the 1-based
\* position of the next boundary, 2 at the start because of skip(1)
RECURSIVE IndexWalk(_, _, _, _, _)
IndexWalk(offs, k, count, last_idx, idx) ==
  IF k > Len(offs)
  THEN [count |-> count, last_idx |-> last_idx, idx |-> idx]
  ELSE LET n == Pushes(count, offs[k])
       IN IndexWalk(offs, k + 1, count + n, Advance(last_idx),
                    idx \o Repeat(last_idx, n))

\* `capacity - count as usize` (lines 24 and 105) is a usize subtraction: a
\* negative difference panics in a build with overflow checks and wraps to
\* 2^64 + d in one without, where the push loop then runs until allocation
\* fails.  Neither build returns a value.
Builds == {"debug", "release"}

UnderflowOutcome(b) == IF b = "debug" THEN "panic" ELSE "abort"

offsets_to_indexes(b, offs, cap) ==
  LET w == IndexWalk(offs, 2, 0, 0, <<>>)
      d == cap - w.count
  IN IF d < 0
     THEN [status |-> UnderflowOutcome(b), idx |-> <<>>]
     ELSE [status |-> "ok", idx |-> w.idx \o Repeat(w.last_idx, d)]

(***************************************************************************)
(* List columns.  A chunk is an arrow LargeListArray: a backing offsets    *)
(* buffer `offs` (rows + 1 entries), a child array `vals`, and the window  *)
(* (off, len) of rows in view.  The code never inspects child values, so   *)
(* each child element is a distinct label.                                 *)
(***************************************************************************)
ListArray(lens, base, off, len) ==
  LET o == PrefixSums(lens, 0)
  IN [offs |-> o, vals |-> [i \in 1..Last(o) |-> base + i], off |-> off, len |-> len]

\* the views (off, len) of the chunks whose backing array has `rows` rows
ListViews(rows, base) ==
  { ListArray(lens, base, w[1], w[2]) :
      lens \in [1..rows -> 0..MaxListRowLen],
      w \in { v \in (0..rows) \X (0..rows) : v[1] + v[2] <= rows } }

\* columns of zero, one or two chunks with at most MaxListRows backing rows
ListColumns ==
  {<<>>}
  \cup UNION { { <<c>> : c \in ListViews(n, 0) } : n \in 0..MaxListRows }
  \cup UNION { { <<c, d>> : c \in ListViews(n[1], 0), d \in ListViews(n[2], 10) } :
                n \in { m \in (0..MaxListRows) \X (0..MaxListRows) :
                           m[1] + m[2] <= MaxListRows } }

\* the rows of a chunk that are in view, each a sequence of child elements
ChunkRows(c) ==
  [r \in 1..c.len |-> SubSeq(c.vals, c.offs[c.off + r] + 1, c.offs[c.off + r + 1])]

ListRows(ca) == Flatten([i \in 1..Len(ca) |-> ChunkRows(ca[i])])

RowLens(rows) == [r \in 1..Len(rows) |-> Len(rows[r])]

\* ChunkOps::rechunk for a list column: a column of one chunk is returned as
\* it is (the window stays a view), otherwise the rows in view are copied
\* into one fresh chunk
list_rechunk(ca) ==
  IF Len(ca) <= 1 THEN ca
  ELSE LET rows == ListRows(ca)
       IN << [offs |-> PrefixSums(RowLens(rows), 0), vals |-> Flatten(rows),
              off |-> 0, len |-> Len(rows)] >>

\* LargeListArray::value_offsets: len + 1 entries starting at the array offset
value_offsets(arr) == SubSeq(arr.offs, arr.off + 1, arr.off + arr.len + 1)

\* Array::slice(offset, length) of the child array; asserts the bounds
array_slice(vals, offset, length) ==
  IF offset + length > Len(vals)
  THEN [status |-> "panic", values |-> <<>>]
  ELSE [status |-> "ok", values |-> SubSeq(vals, offset + 1, offset + length)]

NoResult(status) ==
  [status |-> status, values |-> <<>>, offsets |-> <<>>, rows |-> 0,
   has_bitmap |-> FALSE, bits |-> <<>>, lookups |-> <<>>, new_offsets |-> <<>>,
   idx_status |-> "none", idx |-> <<>>]

\* ListChunked::explode_and_offsets (explode.rs 31-51)
list_explode_and_offsets(self) ==
  LET ca == list_rechunk(self)
  IN IF Len(ca) = 0 THEN NoResult("NoData")
     ELSE LET listarr == ca[1]
              offs == value_offsets(listarr)
              sl == array_slice(listarr.vals, listarr.off, Last(offs))
          IN IF sl.status # "ok" THEN NoResult(sl.status)
             ELSE [NoResult("ok") EXCEPT !.values = sl.values, !.offsets = offs,
                                         !.rows = Len(sl.values)]

(***************************************************************************)
(* Text columns.  A character is its UTF-8 encoding, a sequence of bytes;  *)
(* a row is a validity bit and its characters (a null row, as the column   *)
(* builders write it, holds no bytes); a chunk is a sequence of rows.      *)
(***************************************************************************)
Chars == { <<97>>, <<195, 169>> }     \* "a" (1 byte) and "e-acute" (2 bytes)

NullRow == [valid |-> FALSE, chars |-> <<>>]

Utf8Rows == {NullRow} \cup [valid : {TRUE}, chars : SeqsUpTo(Chars, MaxRowChars)]

\* a text column of n chunks holding `rows`: no chunk, one chunk, or two
\* chunks that split the rows in the middle
Chunked(rows, n) ==
  IF n = 0 THEN <<>>
  ELSE IF n = 1 THEN <<rows>>
  ELSE <<SubSeq(rows, 1, Len(rows) \div 2), SubSeq(rows, Len(rows) \div 2 + 1, Len(rows))>>

RowBytes(row) == Flatten(row.chars)

\* ChunkedArray::len and ChunkedArray::null_count of a text column
Utf8Len(ca) == Len(Flatten(ca))

Utf8NullCount(ca) == Cardinality({ r \in 1..Utf8Len(ca) : ~Flatten(ca)[r].valid })

\* ChunkOps::rechunk for a text column: all rows in one chunk
utf8_rechunk(ca) == IF Len(ca) = 0 THEN <<>> ELSE << Flatten(ca) >>

\* the physical layout of a LargeStringArray: buffers()[0] holds rows + 1 byte
\* offsets, buffers()[1] (value_data) the bytes, and one validity bit per row
StringArray(rows) ==
  [offs |-> PrefixSums([r \in 1..Len(rows) |-> Len(RowBytes(rows[r]))], 0),
   data |-> Flatten([r \in 1..Len(rows) |-> RowBytes(rows[r])]),
   valid |-> [r \in 1..Len(rows) |-> rows[r].valid]]

RawPartsPlusOne(buf, n) == SubSeq(buf, 1, n + 1)

\* line 71: std::slice::from_raw_parts(offset_ptr, self.len())
RawParts(buf, n) == SubSeq(buf, 1, n)

\* the width of a UTF-8 sequence, decoded from its leading byte
Utf8Width(b) == IF b < 128 THEN 1 ELSE IF b < 224 THEN 2 ELSE IF b < 240 THEN 3 ELSE 4

\* line 78: str_data.char_indices().map(|t| t.0), the 0-based start of each
\* character of the whole byte run
RECURSIVE char_indices(_, _)
char_indices(data, pos) ==
  IF pos >= Len(data) THEN <<>>
  ELSE <<pos>> \o char_indices(data, pos + Utf8Width(data[pos + 1]))

NoFinalOffset(starts, total) == starts

\* line 80: new_offsets.push(str_data.len() as i64)
PushFinalOffset(starts, total) == Append(starts, total)

\* Array::is_valid(i); a lookup past the last row reads outside the bitmap
\* and may return either bit (oob)
is_valid(valid, i, oob) == IF i < Len(valid) THEN valid[i + 1] ELSE oob

\* lines 97-104: the walk over the row offsets that pushes the validity bit
\* of the current row; lookups records every index given to is_valid
RECURSIVE ValidityWalk(_, _, _, _, _, _, _, _, _)
ValidityWalk(valid, oob, offs, k, count, last_idx, last_valid, bits, lookups) ==
  IF k > Len(offs)
  THEN [count |-> count, last_valid |-> last_valid, bits |-> bits, lookups |-> lookups]
  ELSE LET n == Pushes(count, offs[k])
           next_idx == last_idx + 1
       IN ValidityWalk(valid, oob, offs, k + 1, count + n, next_idx,
                       is_valid(valid, next_idx, oob),
                       bits \o Repeat(last_valid, n), Append(lookups, next_idx))

\* lines 90-109: the rebuilt validity bitmap
rebuild_bitmap(b, oob, valid, offs, new_offsets) ==
  LET cap == Len(new_offsets)
      w == ValidityWalk(valid, oob, offs, 2, 0, 0, is_valid(valid, 0, oob), <<>>, <<0>>)
      d == cap - w.count
  IN IF d < 0
     THEN [status |-> UnderflowOutcome(b), bits |-> <<>>, lookups |-> w.lookups]
     ELSE [status |-> "ok", bits |-> w.bits \o Repeat(w.last_valid, d),
           lookups |-> w.lookups]

\* Utf8Chunked::explode_and_offsets (explode.rs 55-116)
utf8_explode_and_offsets(b, oob, self) ==
  LET ca == utf8_rechunk(self)
  IN IF Len(ca) = 0 THEN NoResult("NoData")
     ELSE LET stringarr == StringArray(ca[1])
              str_data == stringarr.data
              offs == RawParts(stringarr.offs, Utf8Len(self))
              new_offsets == PushFinalOffset(char_indices(str_data, 0), Len(str_data))
              len == Len(new_offsets) - 1
              built == [NoResult("ok") EXCEPT
                          !.offsets = offs,
                          !.new_offsets = new_offsets,
                          !.rows = len,
                          !.values = [k \in 1..len |->
                             SubSeq(str_data, new_offsets[k] + 1, new_offsets[k + 1])]]
          IN IF Utf8NullCount(self) > 0
             THEN LET m == rebuild_bitmap(b, oob, stringarr.valid, offs, new_offsets)
                  IN [built EXCEPT !.status = m.status, !.has_bitmap = m.status = "ok",
                                   !.bits = m.bits, !.lookups = m.lookups]
             ELSE built

(***************************************************************************)
(* Specifications: one per entry point, and Spec for all of them.          *)
(***************************************************************************)
OffsetArrays ==
  { PrefixSums(lens, 0) : lens \in SeqsUpTo(0..MaxOffsetStep, MaxOffsetRows) }

MaxCapacity == MaxOffsetRows * MaxOffsetStep + MaxCapacitySlack

InitIndexes ==
  /\ pc = "call"
  /\ kind = "indexes"
  /\ offsets \in OffsetArrays
  /\ capacity \in 0..MaxCapacity
  /\ list_ca = <<>>
  /\ utf8_ca = <<>>
  /\ res = NoResult("none")

InitList ==
  /\ pc = "call"
  /\ kind = "list"
  /\ list_ca \in ListColumns
  /\ offsets = <<>>
  /\ capacity = 0
  /\ utf8_ca = <<>>
  /\ res = NoResult("none")

InitUtf8 ==
  /\ pc = "call"
  /\ kind = "utf8"
  /\ \E rows \in SeqsUpTo(Utf8Rows, MaxUtf8Rows), n \in 0..2 :
       /\ n = 0 => rows = <<>>
       /\ utf8_ca = Chunked(rows, n)
  /\ offsets = <<>>
  /\ capacity = 0
  /\ list_ca = <<>>
  /\ res = NoResult("none")

Init == InitIndexes \/ InitList \/ InitUtf8

\* a direct call of offsets_to_indexes
OffsetsToIndexes ==
  /\ pc = "call"
  /\ kind = "indexes"
  /\ \E b \in Builds :
       LET r == offsets_to_indexes(b, offsets, capacity)
       IN res' = [NoResult(r.status) EXCEPT !.idx_status = r.status, !.idx = r.idx]
  /\ pc' = "done"
  /\ UNCHANGED <<kind, offsets, capacity, list_ca, utf8_ca>>

ListExplode ==
  /\ pc = "call"
  /\ kind = "list"
  /\ res' = list_explode_and_offsets(list_ca)
  /\ pc' = "done"
  /\ UNCHANGED <<kind, offsets, capacity, list_ca, utf8_ca>>

Utf8Explode ==
  /\ pc = "call"
  /\ kind = "utf8"
  /\ \E b \in Builds, oob \in BOOLEAN :
       res' = utf8_explode_and_offsets(b, oob, utf8_ca)
  /\ pc' = "done"
  /\ UNCHANGED <<kind, offsets, capacity, list_ca, utf8_ca>>

\* the table-level caller: offsets_to_indexes on the returned offsets with
\* the length of the exploded column as capacity
ExplodeIndexes ==
  /\ pc = "done"
  /\ kind \in {"list", "utf8"}
  /\ res.status = "ok"
  /\ offsets' = res.offsets
  /\ capacity' = res.rows
  /\ \E b \in Builds :
       LET r == offsets_to_indexes(b, res.offsets, res.rows)
       IN res' = [res EXCEPT !.idx_status = r.status, !.idx = r.idx]
  /\ pc' = "mapped"
  /\ UNCHANGED <<kind, list_ca, utf8_ca>>

NextIndexes == OffsetsToIndexes

NextList == ListExplode \/ ExplodeIndexes

NextUtf8 == Utf8Explode \/ ExplodeIndexes

Next == OffsetsToIndexes \/ ListExplode \/ Utf8Explode \/ ExplodeIndexes

SpecIndexes == InitIndexes /\ [][NextIndexes]_vars

SpecList == InitList /\ [][NextList]_vars

SpecUtf8 == InitUtf8 /\ [][NextUtf8]_vars

Spec == Init /\ [][Next]_vars

(***************************************************************************)
(* What the claims compare the results with.                               *)
(***************************************************************************)
NonDecreasing(s) == \A i \in 1..Len(s) - 1 : s[i] <= s[i + 1]

StrictlyIncreasing(s) == \A i \in 1..Len(s) - 1 : s[i] < s[i + 1]

\* the rows of the text column and, per character of their concatenation,
\* the character and the 0-based row it comes from
TextRows == Flatten(utf8_ca)

TextChars == Flatten([r \in 1..Len(TextRows) |-> TextRows[r].chars])

TextBytes == Flatten(TextChars)

CharOwner ==
  Flatten([r \in 1..Len(TextRows) |-> Repeat(r - 1, Len(TextRows[r].chars))])

HasNull == \E r \in 1..Len(TextRows) : ~TextRows[r].valid

\* C1: offsets_to_indexes with capacity = the last offset returns a mapping
\* of length capacity that is non-decreasing and whose entry at position i is
\* the one row r with offsets[r] <= i < offsets[r+1]; an empty row is in no
\* entry.
C1_MappingIsOwner ==
  (kind = "indexes" /\ pc = "done" /\ capacity = Last(offsets)) =>
    /\ res.idx_status = "ok"
    /\ Len(res.idx) = capacity
    /\ NonDecreasing(res.idx)
    /\ \A i \in 0..capacity - 1 : \A r \in 0..Len(offsets) - 2 :
         (offsets[r + 1] <= i /\ i < offsets[r + 2]) <=> res.idx[i + 1] = r

C1_Witness ==
  /\ kind = "indexes" /\ pc = "done"
  /\ offsets = <<0, 1, 1, 3>> /\ capacity = 3
  /\ res.idx = <<0, 2, 2>>

\* C2: for every slice window of a list column, start > 0 included, the flat
\* values returned by explode_and_offsets are the concatenation, in order,
\* of the elements of the rows inside the window.
C2_SliceRespected ==
  (kind = "list" /\ pc = "done" /\ Len(list_ca) >= 1 /\ Len(ListRows(list_ca)) >= 1) =>
    /\ res.status = "ok"
    /\ res.values = Flatten(ListRows(list_ca))

\* C3: offsets_to_indexes on the offsets returned by the text explode, with
\* the number of exploded rows as capacity, returns a mapping of that length
\* whose entry i is the original row holding the i-th character.
C3_TextMapping ==
  (kind = "utf8" /\ pc = "mapped") =>
    /\ res.idx_status = "ok"
    /\ Len(res.idx) = res.rows
    /\ res.idx = CharOwner

\* C4: the text explode returns the per-row boundary offsets, row-count + 1
\* of them, the last being the total byte length.
C4_OffsetsRowsPlusOne ==
  (kind = "utf8" /\ pc = "done" /\ res.status = "ok" /\ Len(TextRows) >= 1) =>
    /\ Len(res.offsets) = Len(TextRows) + 1
    /\ Last(res.offsets) = Len(TextBytes)

\* C5: explode of a column with zero chunks or zero rows, list or text,
\* returns NoData and nothing else.
C5_EmptyIsNoData ==
  /\ (kind = "list" /\ pc = "done" /\ Len(ListRows(list_ca)) = 0) =>
        res.status = "NoData"
  /\ (kind = "utf8" /\ pc = "done" /\ Len(TextRows) = 0) =>
        res.status = "NoData"

C7_BitmapLength ==
  (kind = "utf8" /\ pc = "done" /\ HasNull) =>
    /\ res.status = "ok"
    /\ res.has_bitmap
    /\ Len(res.bits) = res.rows

\* C8: when the text column has a null row, the validity bit of exploded row
\* k is the validity bit of the original row that produced character k.
C8_BitmapReplicates ==
  (kind = "utf8" /\ pc = "done" /\ HasNull) =>
    /\ res.status = "ok"
    /\ res.has_bitmap
    /\ \A k \in 1..Len(TextChars) :
         k <= Len(res.bits) /\ res.bits[k] = TextRows[CharOwner[k] + 1].valid

\* C9: offsets_to_indexes returns exactly capacity entries, without error or
\* underflow, for every capacity: below, at or above the last offset.
C9_TotalForEveryCapacity ==
  (kind = "indexes" /\ pc = "done") =>
    /\ res.idx_status = "ok"
    /\ Len(res.idx) = capacity

\* C10: every validity lookup is_valid(last_idx) of the bitmap rebuild is
\* made with last_idx below the row count of the normalized column.
C10_LookupsInRange ==
  (kind = "utf8" /\ pc # "call") =>
    \A i \in 1..Len(res.lookups) : res.lookups[i] < Len(TextRows)

C10_Witness ==
  /\ kind = "utf8" /\ pc = "done"
  /\ Len(TextRows) = 3 /\ ~TextRows[3].valid
  /\ res.lookups = <<0, 1, 2>>
====
